---- MODULE Spec2Model ----
(***************************************************************************)
(* Model of cli/cmd/plugin/standalone-cluster/config/config.go: the        *)
(* layered resolution of a LocalClusterConfig (InitializeConfiguration),   *)
(* the derivation of environment variable names (fieldNameToEnvName), the  *)
(* kubeconfig path sanitization (sanatizeKubeconfigPath) and the two       *)
(* persistence helpers (RenderConfigToFile, RenderFileToConfig).           *)
(*                                                                         *)
(* A Go string is a sequence of one-character strings: <<"~","/","a">> is  *)
(* "~/a" and <<>> is "".                                                   *)
(***************************************************************************)
EXTENDS Integers, Sequences, FiniteSets, TLC

VARIABLES
    fs,     \* the file system: path -> entry
    env,    \* the process environment: variable name -> value (set variables only)
    home,   \* outcome of user.Current(): [ok, dir]
    held,   \* the configuration the caller hands to RenderConfigToFile
    op,     \* the operation that ran last ("none" before any)
    arg,    \* its input
    ret     \* its outcome

vars == <<fs, env, home, held, op, arg, ret>>

----------------------------------------------------------------------------
(* Strings *)

UpperLetters ==
    <<"A","B","C","D","E","F","G","H","I","J","K","L","M",
      "N","O","P","Q","R","S","T","U","V","W","X","Y","Z">>

LowerLetters ==
    <<"a","b","c","d","e","f","g","h","i","j","k","l","m",
      "n","o","p","q","r","s","t","u","v","w","x","y","z">>

IsUpper(c) == \E i \in 1..Len(UpperLetters) : UpperLetters[i] = c

\* strings.ToUpper on one character
ToUpperChar(c) ==
    IF \E i \in 1..Len(LowerLetters) : LowerLetters[i] = c
    THEN UpperLetters[CHOOSE i \in 1..Len(LowerLetters) : LowerLetters[i] = c]
    ELSE c

\* strings.ToUpper
ToUpper(s) == [i \in 1..Len(s) |-> ToUpperChar(s[i])]

\* strings.HasPrefix
HasPrefix(s, p) == Len(s) >= Len(p) /\ SubSeq(s, 1, Len(p)) = p

\* s[n:]
Drop(s, n) == SubSeq(s, n + 1, Len(s))

RECURSIVE StringsJoin(_, _)
\* strings.Join
StringsJoin(elems, sep) ==
    IF Len(elems) = 0 THEN <<>>
    ELSE IF Len(elems) = 1 THEN elems[1]
    ELSE elems[1] \o sep \o StringsJoin(Tail(elems), sep)

\* all strings over alphabet of length 0..n
StringsUpTo(alphabet, n) == UNION {[1..k -> alphabet] : k \in 0..n}

----------------------------------------------------------------------------
(* path/filepath on a Unix build *)

Separator == "/"

RECURSIVE SplitPath(_)
\* the separator-delimited segments of a path, empty ones included
SplitPath(p) ==
    IF \A i \in 1..Len(p) : p[i] # Separator THEN <<p>>
    ELSE LET i == CHOOSE j \in 1..Len(p) :
                      p[j] = Separator /\ \A k \in 1..(j-1) : p[k] # Separator
         IN  <<SubSeq(p, 1, i - 1)>> \o SplitPath(Drop(p, i))

RECURSIVE CleanSegments(_, _, _, _)
\* the loop of filepath.Clean: segs still to read, out written so far,
\* dotdot = the number of leading ".." segments of out that cannot be dropped
CleanSegments(segs, out, dotdot, rooted) ==
    IF Len(segs) = 0 THEN out
    ELSE LET s == Head(segs)
             rest == Tail(segs)
         IN  IF s = <<>> \/ s = <<".">>
             THEN CleanSegments(rest, out, dotdot, rooted)
             ELSE IF s = <<".", ".">>
             THEN IF Len(out) > dotdot
                  THEN CleanSegments(rest, SubSeq(out, 1, Len(out) - 1), dotdot, rooted)
                  ELSE IF ~rooted
                  THEN CleanSegments(rest, Append(out, s), dotdot + 1, rooted)
                  ELSE CleanSegments(rest, out, dotdot, rooted)
             ELSE CleanSegments(rest, Append(out, s), dotdot, rooted)

\* filepath.Clean
Clean(path) ==
    IF path = <<>> THEN <<".">>
    ELSE LET rooted == path[1] = Separator
             out == CleanSegments(SplitPath(path), <<>>, 0, rooted)
             body == StringsJoin(out, <<Separator>>)
         IN  IF rooted THEN <<Separator>> \o body
             ELSE IF out = <<>> THEN <<".">>
             ELSE body

\* filepath.Join of two elements: leading empty elements are skipped, the
\* rest joined with the separator and cleaned; all empty gives ""
FilepathJoin(a, b) ==
    IF a # <<>> THEN Clean(a \o <<Separator>> \o b)
    ELSE IF b # <<>> THEN Clean(b)
    ELSE <<>>

----------------------------------------------------------------------------
(* sanatizeKubeconfigPath *)

TildePrefix == <<"~", "/">>

\* a faulty variant: the tilde is not expanded
SanatizeNoTilde(path, h) ==
    [panic |-> FALSE, path |-> FilepathJoin(<<>>, path)]

\* user.Current() returns (nil, err) when the lookup fails, and the code reads
\* usr.HomeDir without looking at err: a nil pointer dereference, so a panic.
sanatizeKubeconfigPath(path, h) ==
    IF HasPrefix(path, TildePrefix)
    THEN IF h.ok
         THEN [panic |-> FALSE,
               path |-> FilepathJoin(FilepathJoin(<<>>, h.dir), Drop(path, 2))]
         ELSE [panic |-> TRUE, path |-> <<>>]
    ELSE [panic |-> FALSE, path |-> FilepathJoin(<<>>, path)]

----------------------------------------------------------------------------
(* The configuration keys and LocalClusterConfig *)

ClusterConfigFile == <<"C","l","u","s","t","e","r","C","o","n","f","i","g","F","i","l","e">>
ClusterName == <<"C","l","u","s","t","e","r","N","a","m","e">>
Tty == <<"T","t","y">>
TKRLocation == <<"T","k","r","L","o","c","a","t","i","o","n">>
Provider == <<"P","r","o","v","i","d","e","r">>
Cni == <<"C","n","i">>
PodCIDR == <<"P","o","d","C","i","d","r">>
ServiceCIDR == <<"S","e","r","v","i","c","e","C","i","d","r">>

DefaultTkrLocation ==
    <<"p","r","o","j","e","c","t","s",".","r","e","g","i","s","t","r","y",".",
      "v","m","w","a","r","e",".","c","o","m","/","t","c","e","/","t","k","r",
      ":","v","1",".","2","1",".","5">>

\* a faulty variant: the Tty default is missing
defaultConfigValuesNoTty ==
    [k \in {TKRLocation, Provider, Cni, PodCIDR, ServiceCIDR} |->
        CASE k = TKRLocation -> DefaultTkrLocation
          [] k = Provider    -> <<"k","i","n","d">>
          [] k = Cni         -> <<"a","n","t","r","e","a">>
          [] k = PodCIDR     -> <<"1","0",".","2","4","4",".","0",".","0","/","1","6">>
          [] k = ServiceCIDR -> <<"1","0",".","9","6",".","0",".","0","/","1","6">>]

\* defaultConfigValues: yaml key -> default
defaultConfigValues ==
    [k \in {TKRLocation, Provider, Cni, PodCIDR, ServiceCIDR, Tty} |->
        CASE k = TKRLocation -> DefaultTkrLocation
          [] k = Provider    -> <<"k","i","n","d">>
          [] k = Cni         -> <<"a","n","t","r","e","a">>
          [] k = PodCIDR     -> <<"1","0",".","2","4","4",".","0",".","0","/","1","6">>
          [] k = ServiceCIDR -> <<"1","0",".","9","6",".","0",".","0","/","1","6">>
          [] k = Tty         -> <<"t","r","u","e">>]

\* The fields of LocalClusterConfig in declaration order: the Go field name,
\* its reflect.Kind and its yaml tag.
StructFields ==
    << [name |-> "ClusterName", kind |-> "string", tag |-> ClusterName],
       [name |-> "KubeconfigPath", kind |-> "string",
        tag |-> <<"K","u","b","e","c","o","n","f","i","g","P","a","t","h">>],
       [name |-> "NodeImage", kind |-> "string",
        tag |-> <<"N","o","d","e","I","m","a","g","e">>],
       [name |-> "Provider", kind |-> "string", tag |-> Provider],
       [name |-> "ProviderConfiguration", kind |-> "map",
        tag |-> <<"P","r","o","v","i","d","e","r","C","o","n","f","i","g","u","r","a","t","i","o","n">>],
       [name |-> "Cni", kind |-> "string", tag |-> Cni],
       [name |-> "CNIConfiguration", kind |-> "map",
        tag |-> <<"C","n","i","C","o","n","f","i","g","u","r","a","t","i","o","n">>],
       [name |-> "PodCidr", kind |-> "string", tag |-> PodCIDR],
       [name |-> "ServiceCidr", kind |-> "string", tag |-> ServiceCIDR],
       [name |-> "TkrLocation", kind |-> "string", tag |-> TKRLocation],
       [name |-> "PortsToForward", kind |-> "slice",
        tag |-> <<"P","o","r","t","s","T","o","F","o","r","w","a","r","d">>],
       [name |-> "Tty", kind |-> "string", tag |-> Tty] >>

FieldIndexes == 1..Len(StructFields)

\* the yaml keys of the struct
YamlKeys == {StructFields[i].tag : i \in FieldIndexes}

StringFieldIndexes == {i \in FieldIndexes : StructFields[i].kind = "string"}

\* &LocalClusterConfig{}: every string empty, the maps and the slice nil
\* (a nil map is the empty function, a nil slice the empty sequence)
ZeroConfig ==
    [ClusterName |-> <<>>, KubeconfigPath |-> <<>>, NodeImage |-> <<>>,
     Provider |-> <<>>, ProviderConfiguration |-> <<>>, Cni |-> <<>>,
     CNIConfiguration |-> <<>>, PodCidr |-> <<>>, ServiceCidr |-> <<>>,
     TkrLocation |-> <<>>, PortsToForward |-> <<>>, Tty |-> <<>>]

----------------------------------------------------------------------------
(* fieldNameToEnvName *)

RECURSIVE FindAllWords(_)
\* regexp `[A-Z][^A-Z]*`, FindAllString(field, -1): the leftmost matches, none
\* overlapping; what precedes the first upper-case letter matches nothing
FindAllWords(s) ==
    IF \A i \in 1..Len(s) : ~IsUpper(s[i]) THEN <<>>
    ELSE LET start == CHOOSE i \in 1..Len(s) :
                          IsUpper(s[i]) /\ \A j \in 1..(i-1) : ~IsUpper(s[j])
             stop == IF \E i \in (start+1)..Len(s) : IsUpper(s[i])
                     THEN (CHOOSE i \in (start+1)..Len(s) :
                              IsUpper(s[i]) /\ \A j \in (start+1)..(i-1) : ~IsUpper(s[j])) - 1
                     ELSE Len(s)
         IN  <<SubSeq(s, start, stop)>> \o FindAllWords(Drop(s, stop))

\* a faulty variant: the key is upper-cased without being split into words
fieldNameToEnvNameNoSplit(field) ==
    StringsJoin(<<<<"T","A","N","Z","U">>, ToUpper(field)>>, <<"_">>)

fieldNameToEnvName(field) ==
    LET allWords == FindAllWords(field)
        namedArray == <<<<"T","A","N","Z","U">>>>
                          \o [i \in 1..Len(allWords) |-> ToUpper(allWords[i])]
    IN  StringsJoin(namedArray, <<"_">>)

----------------------------------------------------------------------------
(* YAML (gopkg.in/yaml.v3) as the code uses it.                             *)
(*                                                                         *)
(* A value of a configuration bag (interface{}) is [t, n, s]: t is the Go  *)
(* dynamic type ("str", "int", "float", "bool"), s the string, n the       *)
(* integer, the truth value as 0/1, or the float counted in halves (3 is   *)
(* 1.5, 2 is 1.0). A scalar of a document is [style, text]: the encoder    *)
(* writes a string plain when the bare text would be read back as a        *)
(* string, double-quoted otherwise; every other scalar is written plain.   *)
(* The keys of a bag are kept as they are.                                 *)

Digits == <<"0","1","2","3","4","5","6","7","8","9">>

IsDigit(c) == \E i \in 1..10 : Digits[i] = c

DigitValue(c) == (CHOOSE i \in 1..10 : Digits[i] = c) - 1

RECURSIVE Itoa(_)
\* strconv.Itoa / FormatInt for n >= 0
Itoa(n) == IF n < 10 THEN <<Digits[n + 1]>> ELSE Itoa(n \div 10) \o <<Digits[(n % 10) + 1]>>

RECURSIVE Atoi(_)
Atoi(s) == IF Len(s) = 0 THEN 0
           ELSE 10 * Atoi(SubSeq(s, 1, Len(s) - 1)) + DigitValue(s[Len(s)])

AllDigits(s) == Len(s) > 0 /\ \A i \in 1..Len(s) : IsDigit(s[i])

\* strconv.FormatFloat(f, 'g', -1, 64) of a float counted in halves: a float
\* with no fractional part is written without a decimal point
FormatFloat(halves) ==
    IF halves % 2 = 0 THEN Itoa(halves \div 2)
    ELSE Itoa(halves \div 2) \o <<".", "5">>

IsFloatText(s) ==
    \E i \in 2..(Len(s) - 1) :
        /\ s[i] = "."
        /\ AllDigits(SubSeq(s, 1, i - 1))
        /\ AllDigits(Drop(s, i))

\* the float named by a text of the form <digits>.<digit>, in halves (only
\* .0 and .5 are exact in halves)
ParseFloat(s) ==
    LET i == CHOOSE j \in 1..Len(s) : s[j] = "."
    IN  2 * Atoi(SubSeq(s, 1, i - 1)) + (IF s[i + 1] = "5" THEN 1 ELSE 0)

NullTexts == {<<>>, <<"~">>, <<"n","u","l","l">>}

TrueText == <<"t","r","u","e">>
FalseText == <<"f","a","l","s","e">>

\* resolve("", text): the type a plain scalar is read as
Resolve(text) ==
    IF text \in NullTexts THEN "null"
    ELSE IF text \in {TrueText, FalseText} THEN "bool"
    ELSE IF AllDigits(text) THEN "int"
    ELSE IF IsFloatText(text) THEN "float"
    ELSE "str"

\* encoder.stringv
EncodeString(s) ==
    [style |-> IF Resolve(s) = "str" THEN "plain" ELSE "quoted", text |-> s]

EncodeInt(n) == [style |-> "plain", text |-> Itoa(n)]

\* encoder.marshal of an interface{} value
EncodeValue(v) ==
    CASE v.t = "str"   -> EncodeString(v.s)
      [] v.t = "int"   -> EncodeInt(v.n)
      [] v.t = "float" -> [style |-> "plain", text |-> FormatFloat(v.n)]
      [] v.t = "bool"  -> [style |-> "plain", text |-> IF v.n = 1 THEN TrueText ELSE FalseText]

\* yaml.Encoder.Encode of a LocalClusterConfig: every field under its yaml tag
Encode(config) ==
    [tag \in YamlKeys |->
        LET f == StructFields[CHOOSE i \in FieldIndexes : StructFields[i].tag = tag]
            v == config[f.name]
        IN  CASE f.kind = "string" -> EncodeString(v)
              [] f.kind = "map"    -> [k \in DOMAIN v |-> EncodeValue(v[k])]
              [] f.kind = "slice"  ->
                    [i \in 1..Len(v) |->
                        [HostPort |-> EncodeInt(v[i].HostPort),
                         ContainerPort |-> EncodeInt(v[i].ContainerPort)]]]

\* decoder.scalar into a string field: a null leaves the field as it is, any
\* other scalar sets it to the scalar's text
DecodeString(node, old) ==
    IF node.style = "plain" /\ Resolve(node.text) = "null" THEN old ELSE node.text

\* decoder.scalar into an int field
DecodeInt(node) == Atoi(node.text)

StrValue(s) == [t |-> "str", n |-> 0, s |-> s]
IntValue(n) == [t |-> "int", n |-> n, s |-> <<>>]
FloatValue(halves) == [t |-> "float", n |-> halves, s |-> <<>>]
BoolValue(b) == [t |-> "bool", n |-> IF b THEN 1 ELSE 0, s |-> <<>>]

\* decoder.scalar into interface{}: a quoted scalar is a string, a plain one
\* what it resolves to
DecodeValue(node) ==
    IF node.style = "quoted" THEN StrValue(node.text)
    ELSE CASE Resolve(node.text) = "int"   -> IntValue(Atoi(node.text))
           [] Resolve(node.text) = "float" -> FloatValue(ParseFloat(node.text))
           [] Resolve(node.text) = "bool"  -> BoolValue(node.text = TrueText)
           [] OTHER                        -> StrValue(node.text)

\* yaml.Unmarshal(data, config) for a document that parses: the keys present
\* set their fields, the others keep what config held
Unmarshal(doc, config) ==
    [name \in DOMAIN config |->
        LET f == StructFields[CHOOSE i \in FieldIndexes : StructFields[i].name = name]
        IN  IF f.tag \notin DOMAIN doc THEN config[name]
            ELSE LET node == doc[f.tag]
                 IN  CASE f.kind = "string" -> DecodeString(node, config[name])
                       [] f.kind = "map"    -> [k \in DOMAIN node |-> DecodeValue(node[k])]
                       [] f.kind = "slice"  ->
                             [i \in 1..Len(node) |->
                                 [HostPort |-> DecodeInt(node[i].HostPort),
                                  ContainerPort |-> DecodeInt(node[i].ContainerPort)]]]

----------------------------------------------------------------------------
(* The file system and the environment *)

\* an entry of fs: nothing, a directory, a path the process may not read, or a
\* regular file; a file holds a YAML document or bytes that do not parse
Absent == [kind |-> "absent", valid |-> FALSE, doc |-> <<>>]
Dir == [kind |-> "dir", valid |-> FALSE, doc |-> <<>>]
Denied == [kind |-> "denied", valid |-> FALSE, doc |-> <<>>]
Garbage == [kind |-> "file", valid |-> FALSE, doc |-> <<>>]
YamlFile(doc) == [kind |-> "file", valid |-> TRUE, doc |-> doc]

Lookup(files, path) == IF path \in DOMAIN files THEN files[path] ELSE Absent

\* os.ReadFile: the error, "" when there is none
ReadFileErr(files, path) ==
    CASE Lookup(files, path).kind = "absent" -> "ENOENT"
      [] Lookup(files, path).kind = "dir"    -> "EISDIR"
      [] Lookup(files, path).kind = "denied" -> "EACCES"
      [] OTHER                               -> ""

\* os.Getenv: "" for a variable that is not set
Getenv(name) == IF name \in DOMAIN env THEN env[name] ELSE <<>>

\* m[key] of a Go map[string]string: "" for a missing key
MapGet(m, key) == IF key \in DOMAIN m THEN m[key] ELSE <<>>

----------------------------------------------------------------------------
(* InitializeConfiguration *)

NoConfig == <<>>

\* a faulty variant: a file that cannot be read or parsed gives an empty baseline
LoadBaselineLenient(commandArgs) ==
    LET path == MapGet(commandArgs, ClusterConfigFile)
    IN  IF path = <<>> \/ ReadFileErr(fs, path) # "" \/ ~Lookup(fs, path).valid
        THEN [err |-> "", config |-> ZeroConfig]
        ELSE [err |-> "", config |-> Unmarshal(Lookup(fs, path).doc, ZeroConfig)]

\* lines 103-114: the baseline from the configuration file, if one is named
LoadBaseline(commandArgs) ==
    LET path == MapGet(commandArgs, ClusterConfigFile)
    IN  IF path = <<>> THEN [err |-> "", config |-> ZeroConfig]
        ELSE IF ReadFileErr(fs, path) # "" THEN [err |-> ReadFileErr(fs, path), config |-> ZeroConfig]
        ELSE IF ~Lookup(fs, path).valid THEN [err |-> "yaml", config |-> ZeroConfig]
        ELSE [err |-> "", config |-> Unmarshal(Lookup(fs, path).doc, ZeroConfig)]

\* a faulty variant: the environment is looked up before the explicit argument
MergeFieldEnvFirst(config, i, commandArgs) ==
    LET field == StructFields[i]
        fieldName == field.tag
        set == IF Getenv(fieldNameToEnvName(fieldName)) # <<>>
               THEN [config EXCEPT ![field.name] = Getenv(fieldNameToEnvName(fieldName))]
               ELSE IF fieldName \in DOMAIN commandArgs /\ commandArgs[fieldName] # <<>>
               THEN [config EXCEPT ![field.name] = commandArgs[fieldName]]
               ELSE config
    IN  IF field.kind # "string" THEN config
        ELSE IF set[field.name] = <<>> /\ fieldName \in DOMAIN defaultConfigValues
        THEN [set EXCEPT ![field.name] = defaultConfigValues[fieldName]]
        ELSE set

\* a faulty variant: fields of every kind are overlaid, not only the strings
MergeFieldAnyKind(config, i, commandArgs) ==
    LET field == StructFields[i]
        fieldName == field.tag
        set == IF fieldName \in DOMAIN commandArgs /\ commandArgs[fieldName] # <<>>
               THEN [config EXCEPT ![field.name] = commandArgs[fieldName]]
               ELSE IF Getenv(fieldNameToEnvName(fieldName)) # <<>>
               THEN [config EXCEPT ![field.name] = Getenv(fieldNameToEnvName(fieldName))]
               ELSE config
    IN  IF set[field.name] = <<>> /\ fieldName \in DOMAIN defaultConfigValues
        THEN [set EXCEPT ![field.name] = defaultConfigValues[fieldName]]
        ELSE set

\* lines 119-145: one turn of the loop over the struct's fields
MergeField(config, i, commandArgs) ==
    LET field == StructFields[i]
        fieldName == field.tag
        set == IF fieldName \in DOMAIN commandArgs /\ commandArgs[fieldName] # <<>>
               THEN [config EXCEPT ![field.name] = commandArgs[fieldName]]
               ELSE IF Getenv(fieldNameToEnvName(fieldName)) # <<>>
               THEN [config EXCEPT ![field.name] = Getenv(fieldNameToEnvName(fieldName))]
               ELSE config
    IN  IF field.kind # "string" THEN config
        ELSE IF set[field.name] = <<>> /\ fieldName \in DOMAIN defaultConfigValues
        THEN [set EXCEPT ![field.name] = defaultConfigValues[fieldName]]
        ELSE set

RECURSIVE MergeFields(_, _, _)
\* lines 117-146: the loop, from field i on
MergeFields(config, i, commandArgs) ==
    IF i > Len(StructFields) THEN config
    ELSE MergeFields(MergeField(config, i, commandArgs), i + 1, commandArgs)

\* a faulty variant: the cluster name is not checked
InitializeConfigurationUnchecked(commandArgs) ==
    LET base == LoadBaseline(commandArgs)
        merged == MergeFields(base.config, 1, commandArgs)
        clean == sanatizeKubeconfigPath(merged.KubeconfigPath, home)
    IN  IF base.err # ""
        THEN [status |-> "error", err |-> base.err, config |-> NoConfig, merged |-> NoConfig]
        ELSE IF clean.panic
        THEN [status |-> "panic", err |-> "", config |-> NoConfig, merged |-> <<merged>>]
        ELSE [status |-> "ok", err |-> "",
              config |-> <<[merged EXCEPT !.KubeconfigPath = clean.path]>>,
              merged |-> <<merged>>]

\* the outcome of InitializeConfiguration: status "ok" (a configuration and a
\* nil error), "error" (nil and an error) or "panic"; merged is the
\* configuration as the loop left it, when the loop ran
InitializeConfigurationResult(commandArgs) ==
    LET base == LoadBaseline(commandArgs)
        merged == MergeFields(base.config, 1, commandArgs)
        clean == sanatizeKubeconfigPath(merged.KubeconfigPath, home)
    IN  IF base.err # ""
        THEN [status |-> "error", err |-> base.err, config |-> NoConfig, merged |-> NoConfig]
        ELSE IF merged.ClusterName = <<>>
        THEN [status |-> "error", err |-> "cluster name must be provided",
              config |-> NoConfig, merged |-> <<merged>>]
        ELSE IF clean.panic
        THEN [status |-> "panic", err |-> "", config |-> NoConfig, merged |-> <<merged>>]
        ELSE [status |-> "ok", err |-> "",
              config |-> <<[merged EXCEPT !.KubeconfigPath = clean.path]>>,
              merged |-> <<merged>>]

----------------------------------------------------------------------------
(* RenderConfigToFile and RenderFileToConfig *)

\* os.ReadDir: the error, "" when the path is a directory that can be listed
ReadDirErr(files, path) ==
    CASE Lookup(files, path).kind = "absent" -> "ENOENT"
      [] Lookup(files, path).kind = "file"   -> "ENOTDIR"
      [] Lookup(files, path).kind = "denied" -> "EACCES"
      [] OTHER                               -> ""

\* a faulty variant: a path that is not a directory counts as not existing
IsNotExistOrNotDir(err) == err \in {"ENOENT", "ENOTDIR"}

\* os.IsNotExist
IsNotExist(err) == err = "ENOENT"

\* the directory part of a path, "" when it has none
ParentOf(path) ==
    IF \A i \in 1..Len(path) : path[i] # Separator THEN <<>>
    ELSE LET i == CHOOSE j \in 1..Len(path) :
                      path[j] = Separator /\ \A k \in (j+1)..Len(path) : path[k] # Separator
         IN  SubSeq(path, 1, i - 1)

\* os.WriteFile(path, data, 0644): the error, "" when the file is written
WriteFileErr(files, path) ==
    IF ParentOf(path) # <<>> /\ Lookup(files, ParentOf(path)).kind # "dir" THEN "ENOENT"
    ELSE CASE Lookup(files, path).kind = "dir"    -> "EISDIR"
           [] Lookup(files, path).kind = "denied" -> "EACCES"
           [] OTHER                               -> ""

\* RenderConfigToFile: the returned error and the file system it leaves
RenderConfigToFileResult(files, filePath, config) ==
    IF ~IsNotExist(ReadDirErr(files, filePath))
    THEN [status |-> "error", err |-> "failed to create config file",
          config |-> NoConfig, files |-> files]
    ELSE IF WriteFileErr(files, filePath) # ""
    THEN [status |-> "error", err |-> "failed to write rawConfig file",
          config |-> NoConfig, files |-> files]
    ELSE [status |-> "ok", err |-> "", config |-> NoConfig,
          files |-> [p \in DOMAIN files \cup {filePath} |->
                        IF p = filePath THEN YamlFile(Encode(config)) ELSE files[p]]]

\* RenderFileToConfig
RenderFileToConfigResult(files, filePath) ==
    IF ReadFileErr(files, filePath) # ""
    THEN [status |-> "error", err |-> "failed reading config file", config |-> NoConfig]
    ELSE IF ~Lookup(files, filePath).valid
    THEN [status |-> "error", err |-> "configuration was invalid", config |-> NoConfig]
    ELSE [status |-> "ok", err |-> "",
          config |-> <<Unmarshal(Lookup(files, filePath).doc, ZeroConfig)>>]

----------------------------------------------------------------------------
(* Worlds *)

HomeDir == <<"/", "h">>

\* user.Current(): a user with a home directory, or an error
Homes == {[ok |-> TRUE, dir |-> HomeDir], [ok |-> FALSE, dir |-> <<>>]}

\* and the users whose home directory is the root or is not set
PathHomes == Homes \cup {[ok |-> TRUE, dir |-> <<"/">>], [ok |-> TRUE, dir |-> <<>>]}

NoFs == <<>>
NoEnv == <<>>

----------------------------------------------------------------------------
(* SpecPath: sanatizeKubeconfigPath applied to every short path *)

MaxPathLen == 4

PathAlphabet == {"~", "/", ".", "a"}

ExamplePaths ==
    { <<"~","/","c","l","u","s","t","e","r","s","/","f","o","o",".","y","a","m","l">>,
      <<"/","a","b","s","/","p","a","t","h",".","y","a","m","l">> }

Paths == StringsUpTo(PathAlphabet, MaxPathLen) \cup ExamplePaths

InitPath ==
    /\ fs = NoFs
    /\ env = NoEnv
    /\ home \in PathHomes
    /\ held = ZeroConfig
    /\ op = "none"
    /\ arg = <<>>
    /\ ret = [panic |-> FALSE, path |-> <<>>]

Sanatize(p) ==
    /\ op' = "sanatize"
    /\ arg' = p
    /\ ret' = sanatizeKubeconfigPath(p, home)
    /\ UNCHANGED <<fs, env, home, held>>

NextPath == \E p \in Paths : Sanatize(p)

SpecPath == InitPath /\ [][NextPath]_vars

----------------------------------------------------------------------------
(* SpecInit: InitializeConfiguration in a world of six paths, under every  *)
(* environment and argument map that supplies a cluster name or not and at *)
(* most one more entry (empty or not) under any key of the struct          *)

ArgValue == <<"a">>
EnvValue == <<"e">>
FileValue == <<"f">>

MissingPath == <<"m">>
DirPath == <<"d">>
GarbagePath == <<"g">>
EmptyDocPath == <<"0">>
NameDocPath == <<"1">>
FullDocPath == <<"2">>

FullBag == [k \in {<<"k">>} |-> StrValue(FileValue)]

FullPorts == <<[HostPort |-> 80, ContainerPort |-> 8]>>

\* a configuration file that sets every field
FullConfig ==
    [ClusterName |-> FileValue, KubeconfigPath |-> <<"~", "/", "f">>,
     NodeImage |-> FileValue, Provider |-> FileValue,
     ProviderConfiguration |-> FullBag, Cni |-> FileValue,
     CNIConfiguration |-> FullBag, PodCidr |-> FileValue,
     ServiceCidr |-> FileValue, TkrLocation |-> FileValue,
     PortsToForward |-> FullPorts, Tty |-> FileValue]

InitFiles ==
    [p \in {DirPath, GarbagePath, EmptyDocPath, NameDocPath, FullDocPath} |->
        CASE p = DirPath      -> Dir
          [] p = GarbagePath  -> Garbage
          [] p = EmptyDocPath -> YamlFile(<<>>)
          [] p = NameDocPath  -> YamlFile([k \in {ClusterName} |-> EncodeString(FileValue)])
          [] p = FullDocPath  -> YamlFile(Encode(FullConfig))]

ConfigFileArgs ==
    {<<>>, MissingPath, DirPath, GarbagePath, EmptyDocPath, NameDocPath, FullDocPath}

\* a map with one entry
Single(k, v) == [x \in {k} |-> v]

\* map a overridden by map b
Override(a, b) ==
    [k \in DOMAIN a \cup DOMAIN b |-> IF k \in DOMAIN b THEN b[k] ELSE a[k]]

\* the maps over keys that hold v under nameKey or not, and at most one more
\* entry, empty or v
SmallMaps(nameKey, keys, v) ==
    {Override(n, x) :
        n \in {<<>>, Single(nameKey, v)},
        x \in {<<>>} \cup {Single(k, w) : k \in keys, w \in {<<>>, v}}}

Environments ==
    SmallMaps(fieldNameToEnvName(ClusterName), {fieldNameToEnvName(k) : k \in YamlKeys}, EnvValue)

CommandArgs ==
    {Override(m, f) :
        m \in SmallMaps(ClusterName, YamlKeys, ArgValue),
        f \in {<<>>} \cup {Single(ClusterConfigFile, p) : p \in ConfigFileArgs}}

InitInit ==
    /\ fs = InitFiles
    /\ env \in Environments
    /\ home \in Homes
    /\ held = ZeroConfig
    /\ op = "none"
    /\ arg = <<>>
    /\ ret = [status |-> "none", err |-> "", config |-> NoConfig, merged |-> NoConfig]

\* the command resolves its configuration once per invocation
InitializeConfiguration(commandArgs) ==
    /\ op = "none"
    /\ op' = "InitializeConfiguration"
    /\ arg' = commandArgs
    /\ ret' = InitializeConfigurationResult(commandArgs)
    /\ UNCHANGED <<fs, env, home, held>>

NextInit == \E commandArgs \in CommandArgs : InitializeConfiguration(commandArgs)

SpecInit == InitInit /\ [][NextInit]_vars

----------------------------------------------------------------------------
(* SpecRender: the caller holds one configuration and renders it to, and   *)
(* loads from, paths that are absent, occupied or unreachable              *)

MaxBagKeys == 1
MaxPorts == 1

FieldStrings == {<<>>, <<"a">>, <<"1">>, <<"~">>, TrueText}

BagKeys == {<<"k">>, <<"l">>}

BagValues ==
    {StrValue(<<"a">>), StrValue(<<"1">>), IntValue(1),
     FloatValue(3), FloatValue(2), BoolValue(TRUE)}

Bags ==
    UNION {[ks -> BagValues] : ks \in {s \in SUBSET BagKeys : Cardinality(s) <= MaxBagKeys}}

PortMaps == [HostPort : {8, 80}, ContainerPort : {8, 80}]

PortLists == UNION {[1..n -> PortMaps] : n \in 0..MaxPorts}

RenderConfigs ==
    {[ClusterName |-> s, KubeconfigPath |-> s, NodeImage |-> s, Provider |-> s,
      ProviderConfiguration |-> b, Cni |-> s, CNIConfiguration |-> b,
      PodCidr |-> s, ServiceCidr |-> s, TkrLocation |-> s,
      PortsToForward |-> ps, Tty |-> s] :
        s \in FieldStrings, b \in Bags, ps \in PortLists}

NewPath == <<"n">>
OrphanPath == <<"x", "/", "n">>
FilePath == <<"2">>
LockedPath == <<"l">>

RenderPaths == {NewPath, OrphanPath, FilePath, DirPath, LockedPath, GarbagePath}

RenderFiles ==
    [p \in {FilePath, DirPath, LockedPath, GarbagePath} |->
        CASE p = FilePath    -> YamlFile(Encode(FullConfig))
          [] p = DirPath     -> Dir
          [] p = LockedPath  -> Denied
          [] p = GarbagePath -> Garbage]

InitRender ==
    /\ fs = RenderFiles
    /\ env = NoEnv
    /\ home = [ok |-> TRUE, dir |-> HomeDir]
    /\ held \in RenderConfigs
    /\ op = "none"
    /\ arg = <<>>
    /\ ret = [status |-> "none", err |-> "", config |-> NoConfig]

RenderConfigToFile(filePath) ==
    LET r == RenderConfigToFileResult(fs, filePath, held)
    IN  /\ op' = "RenderConfigToFile"
        /\ arg' = filePath
        /\ fs' = r.files
        /\ ret' = [status |-> r.status, err |-> r.err, config |-> r.config]
        /\ UNCHANGED <<env, home, held>>

RenderFileToConfig(filePath) ==
    /\ op' = "RenderFileToConfig"
    /\ arg' = filePath
    /\ ret' = RenderFileToConfigResult(fs, filePath)
    /\ UNCHANGED <<fs, env, home, held>>

NextRender ==
    \E filePath \in RenderPaths :
        \/ RenderConfigToFile(filePath)
        \/ RenderFileToConfig(filePath)

SpecRender == InitRender /\ [][NextRender]_vars

----------------------------------------------------------------------------
(* SpecEnv: fieldNameToEnvName applied to the yaml keys of the struct and to  *)
(* every short key that starts with an upper-case letter, as yaml keys do    *)

MaxKeyLen == 4

KeyAlphabet == {"P", "C", "o", "d"}

Keys == YamlKeys \cup {k \in StringsUpTo(KeyAlphabet, MaxKeyLen) : k # <<>> /\ IsUpper(k[1])}

InitEnv ==
    /\ fs = NoFs
    /\ env = NoEnv
    /\ home = [ok |-> TRUE, dir |-> HomeDir]
    /\ held = ZeroConfig
    /\ op = "none"
    /\ arg = <<>>
    /\ ret = <<>>

EnvName(k) ==
    /\ op' = "fieldNameToEnvName"
    /\ arg' = k
    /\ ret' = fieldNameToEnvName(k)
    /\ UNCHANGED <<fs, env, home, held>>

NextEnv == \E k \in Keys : EnvName(k)

SpecEnv == InitEnv /\ [][NextEnv]_vars

----------------------------------------------------------------------------
(* What the claims read off a state *)

RECURSIVE EnvNameLetters(_)
\* the key letter by letter: an underscore before every upper-case letter,
\* every other letter upper-cased
EnvNameLetters(s) ==
    IF s = <<>> THEN <<>>
    ELSE (IF IsUpper(s[1]) THEN <<"_", s[1]>> ELSE <<ToUpperChar(s[1])>>)
             \o EnvNameLetters(Tail(s))

ExpectedEnvName(key) == <<"T","A","N","Z","U">> \o EnvNameLetters(key)

CountOf(s, P(_)) == Cardinality({i \in 1..Len(s) : P(s[i])})

IsUnderscore(c) == c = "_"

ConfigFileArg == MapGet(arg, ClusterConfigFile)

BaselineLoaded ==
    \/ ConfigFileArg = <<>>
    \/ Lookup(fs, ConfigFileArg).kind = "file" /\ Lookup(fs, ConfigFileArg).valid

\* what the named file holds, field by field; nothing when no file is read
FileConfig ==
    IF ConfigFileArg # <<>> /\ BaselineLoaded
    THEN Unmarshal(Lookup(fs, ConfigFileArg).doc, ZeroConfig)
    ELSE ZeroConfig

FieldArg(i) == MapGet(arg, StructFields[i].tag)
FieldEnv(i) == Getenv(ExpectedEnvName(StructFields[i].tag))
FieldFile(i) == FileConfig[StructFields[i].name]

FieldDefault(i) ==
    CASE StructFields[i].name = "Provider"    -> <<"k","i","n","d">>
      [] StructFields[i].name = "Cni"         -> <<"a","n","t","r","e","a">>
      [] StructFields[i].name = "PodCidr"     -> <<"1","0",".","2","4","4",".","0",".","0","/","1","6">>
      [] StructFields[i].name = "ServiceCidr" -> <<"1","0",".","9","6",".","0",".","0","/","1","6">>
      [] StructFields[i].name = "Tty"         -> <<"t","r","u","e">>
      [] StructFields[i].name = "TkrLocation" -> DefaultTkrLocation
      [] OTHER                                -> <<>>

ExpectedField(i) ==
    IF FieldArg(i) # <<>> THEN FieldArg(i)
    ELSE IF FieldEnv(i) # <<>> THEN FieldEnv(i)
    ELSE IF FieldFile(i) # <<>> THEN FieldFile(i)
    ELSE FieldDefault(i)

Resolved == op = "InitializeConfiguration"

NameSupplied == FieldArg(1) # <<>> \/ FieldEnv(1) # <<>> \/ FieldFile(1) # <<>>

NameError == "cluster name must be provided"

\* a path in the form filepath.Clean leaves alone: "/", ".", or segments
\* none of which is empty or ".", with ".." only at the head of a relative path
IsLexicallyClean(p) ==
    \/ p = <<"/">>
    \/ p = <<".">>
    \/ /\ p # <<>>
       /\ LET segs == SplitPath(p)
              rooted == p[1] = "/"
              body == IF rooted THEN Tail(segs) ELSE segs
          IN  /\ body # <<>>
              /\ \A i \in 1..Len(body) :
                    /\ body[i] # <<>>
                    /\ body[i] # <<".">>
                    /\ body[i] = <<".", ".">> =>
                          ~rooted /\ \A j \in 1..(i-1) : body[j] = <<".", ".">>

\* a clean relative path that does not climb
IsPlainRelative(p) ==
    /\ IsLexicallyClean(p)
    /\ p # <<".">>
    /\ p[1] # "/"
    /\ \A i \in 1..Len(SplitPath(p)) : SplitPath(p)[i] # <<".", ".">>

Sanitized == op = "sanatize"

----------------------------------------------------------------------------
(* The claims *)

\* C1: for every string field, the configuration the merge loop leaves holds
\* the explicit argument if it is non-empty, else the environment variable's
\* value if it is non-empty, else the file's value if it is non-empty, else
\* the field's default, else ""; an empty argument or environment value never
\* clears a lower source. The returned configuration holds the same, but for
\* KubeconfigPath, which is sanitized afterwards.
C1_Precedence ==
    Resolved /\ ret.merged # NoConfig =>
        \A i \in StringFieldIndexes :
            /\ ret.merged[1][StructFields[i].name] = ExpectedField(i)
            /\ (ret.status = "ok" /\ StructFields[i].name # "KubeconfigPath") =>
                   ret.config[1][StructFields[i].name] = ExpectedField(i)

\* a field that the argument, the environment and the file all supply, and a
\* field whose argument is present but empty over an environment value
C1_Witness ==
    /\ Resolved
    /\ ret.status = "ok"
    /\ \E i \in StringFieldIndexes :
          /\ FieldArg(i) # <<>> /\ FieldEnv(i) # <<>> /\ FieldFile(i) # <<>>
          /\ ret.config[1][StructFields[i].name] = FieldArg(i)
          /\ FieldArg(i) # FieldEnv(i)

\* C2 as stated: whenever no source supplies a non-empty cluster name the
\* call returns the error "cluster name must be provided" and no
\* configuration, and every configuration returned has a non-empty name.
C2_Original ==
    Resolved =>
        /\ ~NameSupplied =>
              ret.status = "error" /\ ret.err = NameError /\ ret.config = NoConfig
        /\ ret.config # NoConfig => ret.config[1].ClusterName # <<>>

\* C2 amended: when the baseline is loaded (no file is named, or the named
\* file is read and parsed) and no source supplies a non-empty cluster name,
\* the call returns "cluster name must be provided" and no configuration;
\* when the named file cannot be loaded it returns the file's error and no
\* configuration; every configuration returned has a non-empty name.
C2_NameRequired ==
    Resolved =>
        /\ (BaselineLoaded /\ ~NameSupplied) =>
              ret.status = "error" /\ ret.err = NameError /\ ret.config = NoConfig
        /\ ~BaselineLoaded =>
              ret.status = "error" /\ ret.err # NameError /\ ret.config = NoConfig
        /\ ret.config # NoConfig => ret.config[1].ClusterName # <<>>
        /\ ret.status = "ok" <=> ret.config # NoConfig

\* a file that loads but names no cluster, and nothing else names one
C2_Witness ==
    /\ Resolved
    /\ ConfigFileArg = EmptyDocPath
    /\ ~NameSupplied
    /\ ret.err = NameError

\* C3: with no configuration file, no environment variable and only a
\* non-empty ClusterName among the arguments, the call succeeds with the six
\* defaults, the given name, and everything else empty.
C3_Defaults ==
    (/\ Resolved
     /\ ConfigFileArg = <<>>
     /\ DOMAIN env = {}
     /\ FieldArg(1) # <<>>
     /\ \A k \in DOMAIN arg : k # ClusterName => arg[k] = <<>>) =>
        /\ ret.status = "ok"
        /\ ret.config =
             << [ClusterName |-> arg[ClusterName],
                 KubeconfigPath |-> <<>>,
                 NodeImage |-> <<>>,
                 Provider |-> <<"k","i","n","d">>,
                 ProviderConfiguration |-> <<>>,
                 Cni |-> <<"a","n","t","r","e","a">>,
                 CNIConfiguration |-> <<>>,
                 PodCidr |-> <<"1","0",".","2","4","4",".","0",".","0","/","1","6">>,
                 ServiceCidr |-> <<"1","0",".","9","6",".","0",".","0","/","1","6">>,
                 TkrLocation |-> DefaultTkrLocation,
                 PortsToForward |-> <<>>,
                 Tty |-> <<"t","r","u","e">>] >>

C3_Witness ==
    /\ Resolved
    /\ DOMAIN arg = {ClusterName}
    /\ arg[ClusterName] = ArgValue
    /\ DOMAIN env = {}
    /\ ret.status = "ok"
    /\ ret.config[1].Tty = <<"t","r","u","e">>

\* C4: a RenderConfigToFile step on a path whose directory listing gives
\* anything but "not found" (a regular file, a directory, a path that cannot
\* be read) returns an error and leaves the file system as it was; the file
\* system changes only when the listing reports "not found".
C4_NoOverwrite ==
    [][(op' = "RenderConfigToFile" /\ Lookup(fs, arg').kind # "absent") =>
           (fs' = fs /\ ret'.status = "error"
                /\ ret'.err = "failed to create config file")]_vars

\* a render refused on the path of an existing regular file, still intact
C4_Witness ==
    /\ op = "RenderConfigToFile"
    /\ arg = FilePath
    /\ ret.status = "error"
    /\ Lookup(fs, FilePath) = YamlFile(Encode(FullConfig))
    /\ held # FullConfig

\* C5 as stated: a file that RenderConfigToFile wrote for the configuration
\* held loads, and loads as a configuration equal to the one held, in every
\* string field, both bags and the port list.
C5_RoundTrip ==
    (op = "RenderFileToConfig" /\ arg = NewPath /\ Lookup(fs, NewPath).kind = "file") =>
        ret.status = "ok" /\ ret.config = <<held>>

\* C6 as stated: when the path begins with "~/" and the home directory
\* lookup fails, sanitization does not panic and returns the remainder of
\* the path.
C6_NeverPanics ==
    (Sanitized /\ HasPrefix(arg, TildePrefix) /\ ~home.ok) =>
        /\ ~ret.panic
        /\ IsPlainRelative(Drop(arg, 2)) => ret.path = Drop(arg, 2)

\* C7: the two bags and the port list of the result are what the
\* configuration file holds, empty when no file is given, whatever the
\* arguments and the environment hold under any key.
C7_BagsFromFile ==
    Resolved /\ ret.merged # NoConfig =>
        /\ ret.merged[1].ProviderConfiguration = FileConfig.ProviderConfiguration
        /\ ret.merged[1].CNIConfiguration = FileConfig.CNIConfiguration
        /\ ret.merged[1].PortsToForward = FileConfig.PortsToForward
        /\ ret.status = "ok" =>
              /\ ret.config[1].ProviderConfiguration = FileConfig.ProviderConfiguration
              /\ ret.config[1].CNIConfiguration = FileConfig.CNIConfiguration
              /\ ret.config[1].PortsToForward = FileConfig.PortsToForward

\* an argument or an environment variable under a bag's or the list's key,
\* and the file's bags and list in the result
C7_Witness ==
    /\ Resolved
    /\ ret.status = "ok"
    /\ ConfigFileArg = FullDocPath
    /\ \E i \in FieldIndexes \ StringFieldIndexes :
          FieldArg(i) # <<>> \/ FieldEnv(i) # <<>>
    /\ ret.config[1].ProviderConfiguration = FullBag
    /\ ret.config[1].PortsToForward = FullPorts

\* C8 as stated: a path that begins with "~/" comes back as the home
\* directory, a separator and the remainder; every other path comes back
\* unchanged.
C8_Original ==
    Sanitized =>
        /\ (HasPrefix(arg, TildePrefix) /\ home.ok) =>
              ret.path = home.dir \o <<"/">> \o Drop(arg, 2)
        /\ ~HasPrefix(arg, TildePrefix) => ret.path = arg

\* C8 amended: a path that does not begin with "~/" comes back unchanged
\* when it is empty or already lexically clean, and otherwise in
\* filepath.Clean's form of it ("." segments and repeated or trailing
\* separators removed, ".." resolved). A path that begins with "~/", the
\* home directory being resolved, comes back as filepath.Join of the home
\* directory and the remainder: home, a separator and the remainder when
\* the remainder is a clean relative path without ".." (no separator is
\* added to a home of "/", and an empty home leaves the remainder alone),
\* the home directory itself when the remainder is empty, and a lexically
\* clean path in every case.
C8_Sanitize ==
    Sanitized =>
        /\ ~HasPrefix(arg, TildePrefix) =>
              /\ ~ret.panic
              /\ arg = <<>> => ret.path = <<>>
              /\ IsLexicallyClean(arg) => ret.path = arg
              /\ arg # <<>> => IsLexicallyClean(ret.path)
        /\ (HasPrefix(arg, TildePrefix) /\ home.ok) =>
              /\ ~ret.panic
              /\ ret.path = <<>> \/ IsLexicallyClean(ret.path)
              /\ Drop(arg, 2) = <<>> => ret.path = home.dir
              /\ IsPlainRelative(Drop(arg, 2)) =>
                    ret.path = IF home.dir = <<>> THEN Drop(arg, 2)
                               ELSE IF home.dir = <<"/">> THEN <<"/">> \o Drop(arg, 2)
                               ELSE home.dir \o <<"/">> \o Drop(arg, 2)

\* "~/clusters/foo.yaml" expanded under the home directory
C8_Witness ==
    /\ Sanitized
    /\ home.ok
    /\ home.dir = HomeDir
    /\ arg = <<"~","/","c","l","u","s","t","e","r","s","/","f","o","o",".","y","a","m","l">>
    /\ ret.path = home.dir
           \o <<"/","c","l","u","s","t","e","r","s","/","f","o","o",".","y","a","m","l">>

\* C9: for a yaml key, which starts with an upper-case letter, the variable
\* name is TANZU followed by the key's words, split before every upper-case
\* letter, upper-cased and each preceded by an underscore; a key with a
\* single upper-case letter gives one word.
C9_EnvName ==
    op = "fieldNameToEnvName" =>
        /\ ret = ExpectedEnvName(arg)
        /\ CountOf(ret, IsUnderscore) = CountOf(arg, IsUpper)
        /\ CountOf(arg, IsUpper) = 1 => CountOf(ret, IsUnderscore) = 1
        /\ arg = PodCIDR =>
              ret = <<"T","A","N","Z","U","_","P","O","D","_","C","I","D","R">>
        /\ arg = ClusterName =>
              ret = <<"T","A","N","Z","U","_","C","L","U","S","T","E","R","_","N","A","M","E">>
        /\ arg = Provider =>
              ret = <<"T","A","N","Z","U","_","P","R","O","V","I","D","E","R">>

C9_Witness ==
    /\ op = "fieldNameToEnvName"
    /\ arg = PodCIDR
    /\ ret = <<"T","A","N","Z","U","_","P","O","D","_","C","I","D","R">>

\* C10: when the arguments name a configuration file that cannot be read or
\* parsed, the call returns the file's error and no configuration, whatever
\* else the arguments and the environment supply; the error is never the
\* missing-name error and nothing of the merge is returned.
C10_FileFailure ==
    (Resolved /\ ConfigFileArg # <<>> /\ ~BaselineLoaded) =>
        /\ ret.status = "error"
        /\ ret.config = NoConfig
        /\ ret.merged = NoConfig
        /\ ret.err \in {"ENOENT", "EISDIR", "EACCES", "yaml"}

\* a file that does not parse, named beside a valid cluster name
C10_Witness ==
    /\ Resolved
    /\ ConfigFileArg = GarbagePath
    /\ FieldArg(1) # <<>>
    /\ ret.status = "error"
    /\ ret.err = "yaml"

====
